---- MODULE Spec2Model ----
(***************************************************************************)
(* A model of the Legistar scraper's bill search form (legistar/bills.py), *)
(* field aggregator (legistar/base/field.py) and people / membership       *)
(* converters (legistar/old/people.py).                                    *)
(*                                                                         *)
(* Python dicts are functions whose DOMAIN is the set of keys; None is the *)
(* value NoneVal.  Four specifications share the variables: Spec (the      *)
(* search form), SpecPeople, SpecFields and SpecDocs; each leaves the      *)
(* other components' variables at their idle values.                       *)
(***************************************************************************)
EXTENDS Integers, Sequences, FiniteSets, TLC

VARIABLES
    \* ---- search form (bills.py, BillsSearchForm) ----
    doc,        \* self.doc: the current document [marker, page]
    state,      \* self.client.state: hidden session fields of the current document
    pc,         \* position of the form's caller: idle / switch / build / returned / done
    call,       \* the call in progress or just returned: [op, time_period, bodies, kwargs]
    query,      \* the query mapping the call returned
    hist,       \* history of the traversal: fetches, switches, what the call did
    \* ---- people / membership converters (old/people.py) ----
    org_cache,  \* self.config.org_cache: organization name -> Organization
    nextId,     \* the last pupa Organization id handed out
    cfg,        \* the jurisdiction's toggles
    conv,       \* the iteration in progress (record, position, what it yielded) and the last call
    orgStats,   \* per organization name: get_org called for it, how many constructed / emitted in the run
    \* ---- field aggregator (base/field.py) ----
    field_data, \* self.field_data: label text -> accessor (or None)
    ret,        \* the last get_field_* / gen_* call and its outcome
    pupa_media, \* the configured value of 'pupa_media': a list of logical field names
    \* ---- bill detail documents (bills.py, BillsDetailView.gen_documents) ----
    attachments,   \* the link elements found at the attachments location, in document order
    content_type,  \* what the server answers to a HEAD probe of each URL
    gen            \* the generator: position, HEAD probes sent so far, documents yielded so far

vars == << doc, state, pc, call, query, hist, org_cache, nextId, cfg, conv, orgStats,
           field_data, ret, pupa_media, attachments, content_type, gen >>

formVars   == << doc, state, pc, call, query, hist >>
peopleVars == << org_cache, nextId, cfg, conv, orgStats >>
fieldVars  == << field_data, ret, pupa_media >>
docVars    == << attachments, content_type, gen >>

(***************************************************************************)
(* Bounds of the model.                                                    *)
(***************************************************************************)
MaxFetch  == 4     \* network round trips in one traversal
MaxMemb   == 2     \* scraped memberships of one person
MaxText   == 2     \* characters of a field's raw text
MaxLinks  == 3     \* links at the attachments location
MaxMedia  == 2     \* labels in the configured pupa_media list
MaxSponsorsText == 4  \* characters of the sponsors field's raw text

(***************************************************************************)
(* Python values.                                                          *)
(***************************************************************************)
NoneVal == "None"

\* Python truthiness of the values the form handles (None and '' are falsy).
truthy(x) == x /= NoneVal /\ x /= ""

\* Python's `a or b`.
Or(a, b) == IF truthy(a) THEN a ELSE b

EmptyDict == << >>

\* dict(a, **b): a's entries, b's entries winning on a key collision.
dict(a, b) == [k \in (DOMAIN a) \cup (DOMAIN b) |-> IF k \in DOMAIN b THEN b[k] ELSE a[k]]

\* q.update(kw)
update(q, kw) == dict(q, kw)

\* q.pop(k, None)
pop(q, k) == [x \in (DOMAIN q) \ {k} |-> q[x]]


(***************************************************************************)
(* The bill search form: BillsSearchForm (bills.py).                       *)
(***************************************************************************)

\* Control names the code spells out (bills.py lines 79, 80, 98, 99, 110-112, 132).
tabTop_ClientState == "ctl00_tabTop_ClientState"
RadScriptManager1_TSM == "ctl00_RadScriptManager1_TSM"
lstMax_ClientState == "ctl00_ContentPlaceHolder1_lstMax_ClientState"
btnSearch2 == "ctl00$ContentPlaceHolder1$btnSearch2"
lstMax == "ctl00$ContentPlaceHolder1$lstMax"
lstYearsAdvanced == "ctl00$ContentPlaceHolder1$lstYearsAdvanced"
EVENTTARGET == "__EVENTTARGET"
btnSwitch == "ctl00$ContentPlaceHolder1$btnSwitch"

\* The value get_query_simple sends for ctl00_RadScriptManager1_TSM (bills.py 80).
RadScriptManager1_TSM_value ==
    ";;System.Web.Extensions, Version=4.0.0.0, Culture=neutral, PublicKeyToken=31bf3856ad364e35:en-US:fa6755fd-da1a-49d3-9eb4-1e473e780ecd:ea597d4b:b25378d2;Telerik.Web.UI, Version=2014.1.403.45, Culture=neutral, PublicKeyToken=121fae78165ba3d4:en-US:68d9452f-f268-45b2-8db7-8c3bbf305b8d:16e4e7cd:f7645509:24ee1bba:e330518b:88144a7a:1e771326:8e6f0d33:ed16cbdc:f46195d3:19620875:874f8ea2:cda80b3:383e4ce8:2003d0b8:aa288e2d:258f1c72:c128760b:c8618e41:1a73651d:333f8d94:58366029"

\* self.get_config_value(key) for the bill search form: the jurisdiction's
\* configured control names and default values (configuration is external).
configval(key) ==
    CASE key = "time_period" -> "This Year"
      [] key = "types" -> "All Types"
      [] key = "types_el_name" -> "ctl00$ContentPlaceHolder1$lstTypeBasic"
      [] key = "time_period_el_name" -> "ctl00$ContentPlaceHolder1$lstYears"
      [] key = "button_el_name" -> "ctl00$ContentPlaceHolder1$btnSearch"
      [] key = "button" -> "Search Legislation"
      [] key = "id_el_name" -> "ctl00$ContentPlaceHolder1$chkID"
      [] key = "id" -> "on"
      [] key = "text_el_name" -> "ctl00$ContentPlaceHolder1$chkText"
      [] key = "text" -> "on"
      [] key = "advanced_time_period_el_name" -> lstYearsAdvanced

\* The hidden session token the server leaves in every document.
VIEWSTATE == "__VIEWSTATE"

\* The token of the n-th document fetched in a traversal.
Tokens == << "H1", "H2", "H3", "H4", "H5", "H6", "H7", "H8" >>

\* Form controls a server may also echo back among its hidden fields.
SessionEcho ==
    [k \in {btnSearch2, lstMax, lstMax_ClientState, lstYearsAdvanced,
            configval("types_el_name"), configval("time_period_el_name")} |-> "session"]

\* client.state after the n-th fetch: the document's hidden fields.
HiddenState(n, echo) ==
    IF echo THEN dict(SessionEcho, VIEWSTATE :> Tokens[n]) ELSE VIEWSTATE :> Tokens[n]

\* get_query_simple (bills.py 71-90)
get_query_simple(st, time_period, bodies, kwargs) ==
    LET tp == Or(time_period, configval("time_period"))
        bd == Or(bodies, configval("types"))
        q0 == [k \in {tabTop_ClientState, RadScriptManager1_TSM,
                      configval("types_el_name"), configval("time_period_el_name"),
                      configval("button_el_name"), configval("id_el_name"),
                      configval("text_el_name")} |->
                 CASE k = tabTop_ClientState ->
                        "{\"selectedIndexes\":[\"1\"],\"logEntries\":[],\"scrollState\":{}}"
                   [] k = RadScriptManager1_TSM -> RadScriptManager1_TSM_value
                   [] k = configval("types_el_name") -> bd
                   [] k = configval("time_period_el_name") -> tp
                   [] k = configval("button_el_name") -> configval("button")
                   [] k = configval("id_el_name") -> configval("id")
                   [] k = configval("text_el_name") -> configval("text")]
        q1 == update(q0, kwargs)
    IN  dict(st, q1)

\* get_query_advanced without its last step, the merge of client.state (bills.py 116).
get_query_advanced_no_state(st, time_period, bodies, kwargs) ==
    LET tp == Or(time_period, configval("time_period"))
        q0 == [k \in {btnSearch2, lstMax, lstYearsAdvanced} |->
                 CASE k = btnSearch2 -> "Search Legislation"
                   [] k = lstMax -> "All"
                   [] k = lstYearsAdvanced -> tp]
    IN  update(q0, kwargs)

\* get_query_advanced (bills.py 103-117); bodies is accepted and never used.
get_query_advanced(st, time_period, bodies, kwargs) ==
    LET tp == Or(time_period, configval("time_period"))
        q0 == [k \in {btnSearch2, lstMax, lstYearsAdvanced} |->
                 CASE k = btnSearch2 -> "Search Legislation"
                   [] k = lstMax -> "All"
                   [] k = lstYearsAdvanced -> tp]
        q1 == update(q0, kwargs)
    IN  dict(st, q1)

\* get_pagination_query after its get_query call returned q (bills.py 98-101).
get_pagination_query(st, q) ==
    dict(st, pop(pop(q, lstMax_ClientState), btnSearch2))

\* default_search_is_simple answering "advanced" whatever the document holds.
default_search_never_simple(d) == FALSE

\* default_search_is_simple (bills.py 135-147): no element named by the
\* configured advanced-only control in self.doc.
default_search_is_simple(d) == ~ d.marker

\* The query switch_to_advanced_search submits (bills.py 132).
switch_query == EVENTTARGET :> btnSwitch

IsSwitch(q) == EVENTTARGET \in DOMAIN q /\ q[EVENTTARGET] = btnSwitch

\* The documents a server may answer a submitted query with: the switch
\* re-renders the same page in advanced mode; a search answers the next
\* result page, whose markup may or may not carry the advanced-only control.
ServerDocs(d, q) ==
    IF IsSwitch(q) THEN { [marker |-> TRUE, page |-> d.page] }
    ELSE { [marker |-> m, page |-> d.page + 1] : m \in BOOLEAN }

NoCall == [op |-> "none", time_period |-> NoneVal, bodies |-> NoneVal, kwargs |-> EmptyDict]

Ops == {"get_query_simple", "get_query_advanced", "get_query", "get_pagination_query"}

\* What callers pass: a named argument or None, and at most one extra keyword.
NamedArgs(v) == {NoneVal, v}
KwKeys == {VIEWSTATE, btnSearch2, lstMax, lstMax_ClientState, lstYearsAdvanced,
           configval("types_el_name"), configval("time_period_el_name")}
KwargsChoices == {EmptyDict} \cup { k :> "caller" : k \in KwKeys }

FormIdle ==
    /\ doc = [marker |-> FALSE, page |-> 0]
    /\ state = EmptyDict
    /\ pc = "off"
    /\ call = NoCall
    /\ query = EmptyDict
    /\ hist = [fetchNo |-> 0, switches |-> 0, callFetches |-> 0,
               probed |-> FALSE, builtOn |-> FALSE]

PeopleIdle ==
    /\ org_cache = EmptyDict
    /\ nextId = 0
    /\ cfg = [CREATE_LEGISLATURE_MEMBERSHIP |-> FALSE, PPL_PARTY_REQUIRED |-> FALSE,
              drop_orgs |-> {}]
    /\ conv = [op |-> "off"]
    /\ orgStats = EmptyDict

FieldsIdle ==
    /\ field_data = EmptyDict
    /\ ret = [op |-> "off"]
    /\ pupa_media = << >>

DocsIdle ==
    /\ attachments = << >>
    /\ content_type = EmptyDict
    /\ gen = [pc |-> "off"]

\* The search page has been fetched (the first round trip of the traversal).
InitForm ==
    /\ \E m \in BOOLEAN : doc = [marker |-> m, page |-> 0]
    /\ \E e \in BOOLEAN : state = HiddenState(1, e)
    /\ pc = "idle"
    /\ call = NoCall
    /\ query = EmptyDict
    /\ hist = [fetchNo |-> 1, switches |-> 0, callFetches |-> 0,
               probed |-> FALSE, builtOn |-> FALSE]

Init == InitForm /\ PeopleIdle /\ FieldsIdle /\ DocsIdle

\* A direct call of get_query_simple.
GetQuerySimple ==
    /\ pc = "idle"
    /\ \E tp \in NamedArgs("2014"), b \in NamedArgs("Council"), kw \in KwargsChoices :
         /\ call' = [op |-> "get_query_simple", time_period |-> tp, bodies |-> b, kwargs |-> kw]
         /\ query' = get_query_simple(state, tp, b, kw)
    /\ pc' = "returned"
    /\ hist' = [hist EXCEPT !.callFetches = 0, !.probed = doc.marker, !.builtOn = doc.marker]
    /\ UNCHANGED << doc, state >>
    /\ UNCHANGED << peopleVars, fieldVars, docVars >>

\* A direct call of get_query_advanced.
GetQueryAdvanced ==
    /\ pc = "idle"
    /\ \E tp \in NamedArgs("2014"), b \in NamedArgs("Council"), kw \in KwargsChoices :
         /\ call' = [op |-> "get_query_advanced", time_period |-> tp, bodies |-> b, kwargs |-> kw]
         /\ query' = get_query_advanced(state, tp, b, kw)
    /\ pc' = "returned"
    /\ hist' = [hist EXCEPT !.callFetches = 0, !.probed = doc.marker, !.builtOn = doc.marker]
    /\ UNCHANGED << doc, state >>
    /\ UNCHANGED << peopleVars, fieldVars, docVars >>

\* get_query (bills.py 124-128) up to its first suspension point: probe the
\* document.  The traversal calls it directly for the first query and through
\* get_pagination_query (bills.py 97) once a result page has been fetched.
GetQuery ==
    /\ pc = "idle"
    /\ hist.fetchNo < MaxFetch
    /\ \E tp \in NamedArgs("2014"), b \in NamedArgs("Council"), kw \in KwargsChoices :
         call' = [op |-> IF doc.page = 0 THEN "get_query" ELSE "get_pagination_query",
                  time_period |-> tp, bodies |-> b, kwargs |-> kw]
    /\ pc' = IF default_search_is_simple(doc) THEN "switch" ELSE "build"
    /\ hist' = [hist EXCEPT !.callFetches = 0, !.probed = doc.marker, !.builtOn = FALSE]
    /\ UNCHANGED << doc, state, query >>
    /\ UNCHANGED << peopleVars, fieldVars, docVars >>

\* switch_to_advanced_search (bills.py 130-133): submit the switch control; the
\* server's answer replaces the document and the session state.
SwitchToAdvancedSearch ==
    /\ pc = "switch"
    /\ \E d \in ServerDocs(doc, switch_query), e \in BOOLEAN :
         /\ doc' = d
         /\ state' = HiddenState(hist.fetchNo + 1, e)
    /\ hist' = [hist EXCEPT !.fetchNo = @ + 1, !.switches = @ + 1, !.callFetches = @ + 1]
    /\ pc' = "build"
    /\ UNCHANGED << call, query >>
    /\ UNCHANGED << peopleVars, fieldVars, docVars >>

\* The rest of get_query (bills.py 128) and, for a pagination call, of
\* get_pagination_query (bills.py 98-101).
BuildQuery ==
    /\ pc = "build"
    /\ LET q == get_query_advanced(state, call.time_period, call.bodies, call.kwargs)
       IN  query' = IF call.op = "get_pagination_query"
                    THEN get_pagination_query(state, q) ELSE q
    /\ hist' = [hist EXCEPT !.builtOn = doc.marker]
    /\ pc' = "returned"
    /\ UNCHANGED << doc, state, call >>
    /\ UNCHANGED << peopleVars, fieldVars, docVars >>

\* The caller submits the returned query; the next page replaces the document.
SubmitQuery ==
    /\ pc = "returned"
    /\ hist.fetchNo < MaxFetch
    /\ \E d \in ServerDocs(doc, query), e \in BOOLEAN :
         /\ doc' = d
         /\ state' = HiddenState(hist.fetchNo + 1, e)
    /\ hist' = [hist EXCEPT !.fetchNo = @ + 1, !.callFetches = 0]
    /\ pc' = "idle"
    /\ call' = NoCall
    /\ query' = EmptyDict
    /\ UNCHANGED << peopleVars, fieldVars, docVars >>

\* No further page: the traversal ends.
Finish ==
    /\ pc = "idle"
    /\ doc.page >= 1
    /\ pc' = "done"
    /\ UNCHANGED << doc, state, call, query, hist >>
    /\ UNCHANGED << peopleVars, fieldVars, docVars >>

Next ==
    \/ GetQuerySimple
    \/ GetQueryAdvanced
    \/ GetQuery
    \/ SwitchToAdvancedSearch
    \/ BuildQuery
    \/ SubmitQuery
    \/ Finish

Spec == Init /\ [][Next]_vars


(***************************************************************************)
(* Properties of the search form.                                          *)
(***************************************************************************)
Returned(ops) == pc = "returned" /\ call.op \in ops

\* The control a named argument is sent under.
TimePeriodControl(op) ==
    IF op = "get_query_simple" THEN configval("time_period_el_name") ELSE lstYearsAdvanced
BodiesControl == configval("types_el_name")

\* C1: in the query returned by get_query_simple and by get_query_advanced every
\* caller-supplied value wins: each extra keyword is carried under its key, and
\* a supplied time_period and a supplied bodies are carried under their controls
\* (unless an extra keyword of the caller names the same control), never the
\* configured or the session value.
C1_CallerOverridesWin ==
    Returned({"get_query_simple", "get_query_advanced"}) =>
        /\ \A k \in DOMAIN call.kwargs : k \in DOMAIN query /\ query[k] = call.kwargs[k]
        /\ (truthy(call.time_period) /\ TimePeriodControl(call.op) \notin DOMAIN call.kwargs)
              => /\ TimePeriodControl(call.op) \in DOMAIN query
                 /\ query[TimePeriodControl(call.op)] = call.time_period
        /\ (truthy(call.bodies) /\ BodiesControl \notin DOMAIN call.kwargs)
              => /\ BodiesControl \in DOMAIN query
                 /\ query[BodiesControl] = call.bodies

\* C2: the query get_pagination_query returns has no entry for the submit-search
\* button, nor for the max-results selector or its ClientState.
C2_PaginationDropsOneTimeControls ==
    Returned({"get_pagination_query"}) =>
        /\ btnSearch2 \notin DOMAIN query
        /\ lstMax \notin DOMAIN query
        /\ lstMax_ClientState \notin DOMAIN query

\* C3 as stated: every query built (first query or pagination) carries the
\* hidden token of the current, most recently fetched document verbatim.
C3_TokenEchoedVerbatim ==
    pc = "returned" =>
        /\ VIEWSTATE \in DOMAIN query
        /\ query[VIEWSTATE] = state[VIEWSTATE]
        /\ query[VIEWSTATE] = Tokens[hist.fetchNo]

\* C3 amended: every query built carries the hidden token of the current, most
\* recently fetched document verbatim, unless the caller passed an override for
\* the token's own control name.
C3_TokenEchoedUnlessOverridden ==
    (pc = "returned" /\ VIEWSTATE \notin DOMAIN call.kwargs) =>
        /\ VIEWSTATE \in DOMAIN query
        /\ query[VIEWSTATE] = state[VIEWSTATE]
        /\ query[VIEWSTATE] = Tokens[hist.fetchNo]

\* C3 witness: a pagination query for the third page, built after a mode switch
\* inside the call replaced the session state, carries the newest token.
C3_Witness ==
    /\ Returned({"get_pagination_query"})
    /\ doc.page = 2
    /\ hist.callFetches = 1
    /\ VIEWSTATE \notin DOMAIN call.kwargs
    /\ query[VIEWSTATE] = Tokens[hist.fetchNo]

\* C4: get_query (also under get_pagination_query) builds its advanced query
\* only if the probed document held the advanced-only marker or a mode-switch
\* round trip completed first, so never on a simple-mode document.
C4_NoTransitionSkipped ==
    /\ (pc = "build" \/ Returned({"get_query", "get_pagination_query"}))
          => (hist.probed \/ hist.callFetches >= 1)
    /\ Returned({"get_query", "get_pagination_query"}) => hist.builtOn

\* C4 witness: get_query returned after probing a simple-mode document and
\* completing the switch.
C4_Witness ==
    /\ Returned({"get_query"})
    /\ ~ hist.probed
    /\ hist.callFetches = 1
    /\ hist.switches = 1
    /\ hist.builtOn

\* C5: over a traversal the mode switch is submitted at most once, and a
\* get_pagination_query call makes no round trip of its own.
C5_OneFetchPerTransition ==
    /\ hist.switches <= 1
    /\ call.op = "get_pagination_query" => hist.callFetches = 0


(***************************************************************************)
(* People and membership converters (old/people.py).                       *)
(***************************************************************************)

\* self.cfg.TOPLEVEL_ORG_MEMBERSHIP_NAME and the other organizations scraped.
TOPLEVEL_ORG_MEMBERSHIP_NAME == "City Council"
OrgNames == {TOPLEVEL_ORG_MEMBERSHIP_NAME, "Zoning"}

\* A scraped membership: data['org']; the scraper's rows carry no
\* 'organization_id' key (0: the key is absent).
MembershipData == [org : OrgNames, organization_id : {0}]

RECURSIVE SeqsUpTo(_, _)
SeqsUpTo(S, n) ==
    IF n = 0 THEN { << >> }
    ELSE LET shorter == SeqsUpTo(S, n - 1)
         IN  shorter \cup { Append(q, x) : q \in { r \in shorter : Len(r) = n - 1 }, x \in S }

\* The objects the converters yield.
Organization(name, id) ==
    [kind |-> "Organization", name |-> name, id |-> id, organization_id |-> 0, person_id |-> 0]
Membership(name, organization_id, person_id) ==
    [kind |-> "Membership", name |-> name, id |-> 0,
     organization_id |-> organization_id, person_id |-> person_id]
Person(id) ==
    [kind |-> "Person", name |-> "person", id |-> id, organization_id |-> 0, person_id |-> 0]
NoOrg == Organization("", 0)

\* get_org that never takes the cache-hit return (people.py 70-72).
get_org_no_cache_hit(cache, nid, org_name) ==
    LET org == Organization(org_name, nid + 1)
    IN  [created |-> TRUE, org |-> org, cache |-> dict(cache, org_name :> org), nid |-> nid + 1]

\* MembershipConverter.get_org (people.py 60-94): the cached organization, or a
\* new one, cached under its name.  Lines 89-94 are never reached.
get_org(cache, nid, org_name) ==
    IF org_name \in DOMAIN cache
    THEN [created |-> FALSE, org |-> cache[org_name], cache |-> cache, nid |-> nid]
    ELSE LET org == Organization(org_name, nid + 1)
         IN  [created |-> TRUE, org |-> org, cache |-> dict(cache, org_name :> org),
              nid |-> nid + 1]

\* The run's history of a name: get_org was called for it, one more
\* Organization was constructed / emitted under it.
Count(stats, name, what) ==
    [stats EXCEPT ![name] = CASE what = "called" -> [@ EXCEPT !.called = TRUE]
                              [] what = "constructed" -> [@ EXCEPT !.constructed = @ + 1]
                              [] what = "emitted" -> [@ EXCEPT !.emitted = @ + 1]]

\* The generator of one create_membership call (people.py 96-123) run from its
\* start to its first suspension: at is "yield org" (line 114, the new
\* organization already cached, held in the local `org`), "yield membership"
\* (line 123) or "return" (line 107, a dropped organization: nothing yielded).
\* s = [cache, nid, out, stats]: the cache, the id counter, what the iteration
\* has yielded so far, the run's statistics.
create_membership(s, data, person_id, c) ==
    IF data.org \in c.drop_orgs
    THEN [s |-> s, at |-> "return", held |-> NoOrg]
    ELSE IF data.organization_id = 0
    THEN LET g == get_org(s.cache, s.nid, data.org)
             stc == Count(s.stats, data.org, "called")
             st0 == IF g.nid > s.nid THEN Count(stc, data.org, "constructed") ELSE stc
         IN  IF g.created
             THEN [s |-> [cache |-> g.cache, nid |-> g.nid, out |-> Append(s.out, g.org),
                          stats |-> Count(st0, data.org, "emitted")],
                   at |-> "yield org", held |-> g.org]
             ELSE [s |-> [cache |-> g.cache, nid |-> g.nid, stats |-> st0,
                          out |-> Append(s.out, Membership(data.org, g.org.id, person_id))],
                   at |-> "yield membership", held |-> NoOrg]
    ELSE [s |-> [s EXCEPT !.out = Append(@, Membership(data.org, data.organization_id,
                                                       person_id))],
          at |-> "yield membership", held |-> NoOrg]

\* The same generator resumed after `yield org` (people.py 116-123): the held
\* organization's id goes into the membership, which is yielded.
create_membership_resume(s, data, held, person_id) ==
    [s |-> [s EXCEPT !.out = Append(@, Membership(data.org, held.id, person_id))],
     at |-> "yield membership", held |-> NoOrg]

\* The end of create_memberships (people.py 130-136), run once the loop is
\* over.  related counts the memberships person.add_membership attached to the
\* person; get_legislature (people.py 55-58) raises KeyError when the cache,
\* as it is at that moment, has no top-level organization.
create_memberships_tail(s, rec, c) ==
    IF ~ rec.party /\ c.PPL_PARTY_REQUIRED
    THEN [related |-> 0, raised |-> FALSE]
    ELSE IF c.CREATE_LEGISLATURE_MEMBERSHIP
    THEN IF TOPLEVEL_ORG_MEMBERSHIP_NAME \in DOMAIN s.cache
         THEN [related |-> 1, raised |-> FALSE]
         ELSE [related |-> 0, raised |-> TRUE]
    ELSE [related |-> 0, raised |-> FALSE]

\* MembershipConverter.create_memberships (people.py 125-136) run from the
\* start of the create_membership call for the i-th membership to the next
\* suspension: a yield of that or a later membership's generator, or, the loop
\* over, the return ("return") or the KeyError of the end.
RECURSIVE create_memberships(_, _, _, _, _)
create_memberships(s, rec, i, person_id, c) ==
    IF i > Len(rec.memberships)
    THEN LET t == create_memberships_tail(s, rec, c)
         IN  [s |-> s, at |-> IF t.raised THEN "KeyError" ELSE "return", i |-> i,
              held |-> NoOrg, related |-> t.related]
    ELSE LET m == create_membership(s, rec.memberships[i], person_id, c)
         IN  IF m.at = "return"
             THEN create_memberships(m.s, rec, i + 1, person_id, c)
             ELSE [s |-> m.s, at |-> m.at, i |-> i, held |-> m.held, related |-> 0]

\* PeopleAdapter.get_instance (people.py 199-217): None for a record that
\* should_drop_person drops, else the new Person (0 stands for None, 1 for the
\* _id of the person being converted).
get_instance(rec) == IF rec.drop THEN 0 ELSE 1

\* PeopleConverter.__iter__ from the i-th membership on (people.py 254-255):
\* the memberships' generator up to its next suspension and, when it has
\* returned, `yield self.person`.
iter_person(s, rec, i, person_id, c) ==
    LET m == create_memberships(s, rec, i, person_id, c)
    IN  IF m.at = "return"
        THEN [s |-> [m.s EXCEPT !.out = Append(@, Person(person_id))],
              at |-> "yield person", i |-> m.i, held |-> NoOrg,
              related |-> m.related, person |-> person_id]
        ELSE [s |-> m.s, at |-> m.at, i |-> m.i, held |-> m.held,
              related |-> m.related, person |-> person_id]

\* __iter__ without the `if self.person is None: return` of people.py 243-244.
PeopleConverter_iter_no_return(s, rec, c) ==
    iter_person(s, rec, 1, get_instance(rec), c)

\* PeopleConverter.__iter__ (people.py 232-255) from its start to its first
\* suspension: the first next() of the iteration.
PeopleConverter_iter(s, rec, c) ==
    LET person_id == get_instance(rec)
    IN  IF person_id = 0
        THEN [s |-> s, at |-> "dropped", i |-> 0, held |-> NoOrg, related |-> 0, person |-> 0]
        ELSE iter_person(s, rec, 1, person_id, c)

\* One next() of the iteration, from where the generator is suspended.
PeopleConverter_next(s, cv, c) ==
    CASE cv.pc = "new" -> PeopleConverter_iter(s, cv.rec, c)
      [] cv.pc = "yield org" ->
            LET m == create_membership_resume(s, cv.rec.memberships[cv.i], cv.held, cv.person)
            IN  [s |-> m.s, at |-> m.at, i |-> cv.i, held |-> m.held,
                 related |-> 0, person |-> cv.person]
      [] cv.pc = "yield membership" -> iter_person(s, cv.rec, cv.i + 1, cv.person, c)
      [] cv.pc = "yield person" ->
            [s |-> s, at |-> "done", i |-> cv.i, held |-> NoOrg,
             related |-> cv.related, person |-> cv.person]

PersonRecords ==
    [memberships : SeqsUpTo(MembershipData, MaxMemb), party : BOOLEAN, drop : BOOLEAN]

NoRecord == [memberships |-> << >>, party |-> FALSE, drop |-> FALSE]

\* A run starts with an empty cache, or with the legislature scraped before.
InitPeople ==
    /\ org_cache \in { EmptyDict,
                       TOPLEVEL_ORG_MEMBERSHIP_NAME :> Organization(TOPLEVEL_ORG_MEMBERSHIP_NAME, 1) }
    /\ nextId = IF org_cache = EmptyDict THEN 0 ELSE 1
    /\ cfg \in [CREATE_LEGISLATURE_MEMBERSHIP : BOOLEAN, PPL_PARTY_REQUIRED : BOOLEAN,
                drop_orgs : { {}, {"Zoning"} }]
    /\ conv = [op |-> "none", rec |-> NoRecord, pc |-> "idle", i |-> 0, held |-> NoOrg,
               out |-> << >>, related |-> 0, person |-> 0,
               name |-> "", created |-> FALSE, org |-> NoOrg]
    /\ orgStats = [n \in OrgNames |-> [called |-> FALSE, constructed |-> 0, emitted |-> 0]]

\* The consumer takes a person record and the iterator of its PeopleConverter;
\* nothing of __iter__ runs before the first next().  An iteration still in
\* progress is abandoned.
Convert ==
    /\ conv.op /= "off"
    /\ conv.pc /= "KeyError"
    /\ \E rec \in PersonRecords :
         conv' = [op |-> "iter", rec |-> rec, pc |-> "new", i |-> 0, held |-> NoOrg,
                  out |-> << >>, related |-> 0, person |-> 0,
                  name |-> "", created |-> FALSE, org |-> NoOrg]
    /\ UNCHANGED << org_cache, nextId, cfg, orgStats >>
    /\ UNCHANGED << formVars, fieldVars, docVars >>

\* One next() on the iterator: __iter__ runs from where it is suspended to its
\* next yield, to its end, or to the exception that leaves it.
IterNext ==
    /\ conv.op /= "off"
    /\ conv.pc \in {"new", "yield org", "yield membership", "yield person"}
    /\ LET r == PeopleConverter_next(
                    [cache |-> org_cache, nid |-> nextId, out |-> conv.out, stats |-> orgStats],
                    conv, cfg)
       IN  /\ org_cache' = r.s.cache
           /\ nextId' = r.s.nid
           /\ orgStats' = r.s.stats
           /\ conv' = [op |-> "next", rec |-> conv.rec, pc |-> r.at, i |-> r.i,
                       held |-> r.held, out |-> r.s.out, related |-> r.related,
                       person |-> r.person,
                       name |-> "", created |-> FALSE, org |-> NoOrg]
    /\ UNCHANGED cfg
    /\ UNCHANGED << formVars, fieldVars, docVars >>

\* A call of get_org on its own, by the consumer or by another converter of
\* the run, also between two next() of an iteration in progress.
GetOrg ==
    /\ conv.op /= "off"
    /\ conv.pc /= "KeyError"
    /\ \E name \in OrgNames :
         LET g == get_org(org_cache, nextId, name)
         IN  /\ org_cache' = g.cache
             /\ nextId' = g.nid
             /\ orgStats' = LET stc == Count(orgStats, name, "called")
                            IN  IF g.nid > nextId THEN Count(stc, name, "constructed")
                                ELSE stc
             /\ conv' = [conv EXCEPT !.op = "get_org", !.name = name,
                                     !.created = g.created, !.org = g.org]
    /\ UNCHANGED cfg
    /\ UNCHANGED << formVars, fieldVars, docVars >>

NextPeople == Convert \/ IterNext \/ GetOrg

InitPeopleRun == FormIdle /\ InitPeople /\ FieldsIdle /\ DocsIdle

SpecPeople == InitPeopleRun /\ [][NextPeople]_vars


(***************************************************************************)
(* Properties of the people and membership converters.                     *)
(***************************************************************************)
CountKind(out, kind) == Cardinality({ i \in 1..Len(out) : out[i].kind = kind })
KeptMemberships(rec) ==
    Cardinality({ i \in 1..Len(rec.memberships) : rec.memberships[i].org \notin cfg.drop_orgs })

C7_CacheState ==
    /\ \A n \in DOMAIN org_cache : org_cache[n].name = n
    /\ \A n \in DOMAIN orgStats :
          orgStats[n].constructed <= 1 /\ orgStats[n].emitted <= 1
    /\ conv.op = "get_org" =>
          /\ conv.name \in DOMAIN org_cache
          /\ conv.org = org_cache[conv.name]

C7_CacheStep ==
    /\ \A n \in DOMAIN org_cache : n \in DOMAIN org_cache' /\ org_cache'[n] = org_cache[n]
    /\ conv'.op = "get_org" =>
          /\ conv'.created <=> conv'.name \notin DOMAIN org_cache
          /\ conv'.name \in DOMAIN org_cache => conv'.org = org_cache[conv'.name]

C7_FirstCallStep ==
    /\ \A n \in DOMAIN org_cache : n \in DOMAIN org_cache' /\ org_cache'[n] = org_cache[n]
    /\ conv'.op = "get_org" =>
          /\ conv'.created <=> ~ orgStats[conv'.name].called
          /\ orgStats[conv'.name].called => conv'.org = org_cache[conv'.name]

\* C7 as stated: the organization cache is keyed by name and append-only: no
\* step removes or replaces an entry; get_org(name) answers created=True exactly
\* on the first call for that name in the run, and created=False with the very
\* organization cached before on every later call; so at most one Organization
\* per name is constructed, and at most one emitted, in a run.
C7_CreatedOnFirstCall == [] C7_CacheState /\ [][C7_FirstCallStep]_vars

\* C7 amended: the organization cache is keyed by name and append-only: no step
\* removes or replaces an entry; get_org(name) answers created=True exactly when
\* the name was not cached yet (its first call, unless the cache held the name
\* before the run), and otherwise created=False with the very organization
\* cached before; so at most one Organization per name is constructed, and at
\* most one emitted, in a run.
C7_OrgCacheAppendOnly == [] C7_CacheState /\ [][C7_CacheStep]_vars

\* C7 witness: both names have been asked for in a run that started with the
\* top-level organization cached; the last call hit the cache, one
\* Organization was constructed for the other name and none for the top-level
\* one.
C7_Witness ==
    /\ conv.op = "get_org"
    /\ ~ conv.created
    /\ conv.org = org_cache[conv.name]
    /\ \A n \in OrgNames : orgStats[n].called
    /\ orgStats[TOPLEVEL_ORG_MEMBERSHIP_NAME].constructed = 0
    /\ orgStats["Zoning"].constructed = 1

Started == conv.pc \notin {"idle", "new"}
C8_Emitted ==
    /\ conv.pc = "new" => conv.out = << >>
    /\ Started =>
        /\ conv.rec.drop =>
              conv.pc = "dropped" /\ conv.out = << >> /\ conv.related = 0
        /\ ~ conv.rec.drop =>
              conv.pc \in {"yield org", "yield membership", "yield person", "done", "KeyError"}
        /\ conv.pc \in {"yield person", "done"} =>
              /\ Len(conv.out) >= 1
              /\ conv.out[Len(conv.out)].kind = "Person"
              /\ CountKind(conv.out, "Person") = 1
              /\ CountKind(conv.out, "Membership") = KeptMemberships(conv.rec)
        /\ conv.pc \in {"yield org", "yield membership", "KeyError"} =>
              CountKind(conv.out, "Person") = 0

C8_DropStep ==
    (conv'.op = "next" /\ conv'.rec.drop) =>
        org_cache' = org_cache /\ orgStats' = orgStats /\ nextId' = nextId

\* C8: when get_instance returns None for a record, the iteration of
\* PeopleConverter yields nothing (no Person, Membership or Organization) and
\* leaves the organization cache as it was; when it returns a person and the
\* iteration yields that Person, every Membership and Organization of the
\* record was yielded before it.
C8_DroppedEmitsNothing == [] C8_Emitted /\ [][C8_DropStep]_vars

\* C8 witness: a dropped record that has a scraped membership in an
\* organization neither cached nor dropped.
C8_Witness ==
    /\ conv.op = "next"
    /\ conv.pc = "dropped"
    /\ conv.rec.drop
    /\ Len(conv.rec.memberships) >= 1
    /\ conv.rec.memberships[1].org \notin DOMAIN org_cache
    /\ conv.rec.memberships[1].org \notin cfg.drop_orgs
    /\ conv.out = << >>

\* C9: create_memberships adds a legislature-wide membership to the person only
\* when CREATE_LEGISLATURE_MEMBERSHIP is on and the scraped memberships hold
\* none in the top-level organization.
C9_LegislatureMembershipOnlyWhenAbsent ==
    (conv.pc \in {"yield person", "done"} /\ conv.related > 0) =>
        /\ cfg.CREATE_LEGISLATURE_MEMBERSHIP
        /\ \A i \in 1..Len(conv.rec.memberships) :
              conv.rec.memberships[i].org /= TOPLEVEL_ORG_MEMBERSHIP_NAME


(***************************************************************************)
(* The field aggregator: FieldAggregator (base/field.py).                  *)
(***************************************************************************)

\* Logical field names and self.get_label_text(key) (field.py 64-70): the label
\* text the jurisdiction configures for each.
FieldNames == {"sponsors", "file_number"}
MediaLabels == {"action_details", "meeting_details"}
get_label_text(key) ==
    CASE key = "sponsors" -> "Sponsors:"
      [] key = "file_number" -> "File #:"
      [] key = "action_details" -> "Action Details:"
      [] key = "meeting_details" -> "Meeting Details:"

\* A field accessor bound to one markup location: the location's raw text, a
\* sequence of characters, and its first URL (None when it has none).  A
\* field_data value may also be None itself.
Chars == {"a", " "}
Urls == {NoneVal, "", "http://host/doc"}
Accessors == [is_none : {FALSE}, text : SeqsUpTo(Chars, MaxText), url : Urls]
NoneAccessor == [is_none |-> TRUE, text |-> << >>, url |-> NoneVal]

\* Whitespace normalization: ends stripped, inner runs of blanks collapsed.
RECURSIVE lstrip(_)
lstrip(t) == IF t /= << >> /\ Head(t) = " " THEN lstrip(Tail(t)) ELSE t

RECURSIVE collapse(_)
collapse(t) ==
    IF t = << >> THEN << >>
    ELSE IF Head(t) = " "
    THEN LET rest == lstrip(t)
         IN  IF rest = << >> THEN << >> ELSE << " " >> \o collapse(rest)
    ELSE << Head(t) >> \o collapse(Tail(t))

\* FieldAccessor.get_text (field.py 23-26; spec 4.1: whitespace-normalized).
get_text(a) == collapse(lstrip(a.text))

\* FieldAccessor.is_blank (field.py 39-40; spec 4.1: no meaningful text).
is_blank(a) == get_text(a) = << >>

\* FieldAccessor.get_url (field.py 13-16): the first URL in the field data.
get_url(a) == a.url

\* get_field_data (field.py 72-78): the accessor under the configured label,
\* or SkipItem when the record has no such label.
get_field_data(fd, label_text) ==
    LET key == get_label_text(label_text)
    IN  IF key \in DOMAIN fd
        THEN [outcome |-> "return", data |-> fd[key]]
        ELSE [outcome |-> "SkipItem", data |-> NoneAccessor]

\* get_field_text without the is_blank test of field.py 83-84.
get_field_text_no_blank_test(fd, label_text) ==
    LET r == get_field_data(fd, label_text)
    IN  IF r.outcome = "SkipItem"
        THEN [outcome |-> "SkipItem", none |-> TRUE, value |-> << >>]
        ELSE IF ~ r.data.is_none
        THEN [outcome |-> "return", none |-> FALSE, value |-> get_text(r.data)]
        ELSE [outcome |-> "return", none |-> TRUE, value |-> << >>]

\* get_field_text (field.py 80-85).
get_field_text(fd, label_text) ==
    LET r == get_field_data(fd, label_text)
    IN  IF r.outcome = "SkipItem"
        THEN [outcome |-> "SkipItem", none |-> TRUE, value |-> << >>]
        ELSE IF ~ r.data.is_none
        THEN IF is_blank(r.data)
             THEN [outcome |-> "return", none |-> TRUE, value |-> << >>]
             ELSE [outcome |-> "return", none |-> FALSE, value |-> get_text(r.data)]
        ELSE [outcome |-> "return", none |-> TRUE, value |-> << >>]

\* get_field_url (field.py 87-90).
get_field_url(fd, label_text) ==
    LET r == get_field_data(fd, label_text)
    IN  IF r.outcome = "SkipItem"
        THEN [outcome |-> "SkipItem", none |-> TRUE, value |-> ""]
        ELSE IF ~ r.data.is_none
        THEN LET u == Or(get_url(r.data), NoneVal)
             IN  IF u = NoneVal
                 THEN [outcome |-> "return", none |-> TRUE, value |-> ""]
                 ELSE [outcome |-> "return", none |-> FALSE, value |-> u]
        ELSE [outcome |-> "return", none |-> TRUE, value |-> ""]

\* The records a document may give: any subset of the labels, each bound to an
\* accessor or to None.
FieldDatas ==
    UNION { [ls -> Accessors \cup {NoneAccessor}] :
              ls \in SUBSET { get_label_text(n) : n \in FieldNames } }

InitFields ==
    /\ field_data \in FieldDatas
    /\ ret = [op |-> "none", label |-> "", outcome |-> "none", none |-> TRUE, value |-> ""]
    /\ pupa_media = << >>

InitFieldsRun == FormIdle /\ PeopleIdle /\ InitFields /\ DocsIdle

GetFieldText ==
    /\ ret.op /= "off"
    /\ \E label \in FieldNames :
         LET r == get_field_text(field_data, label)
         IN  ret' = [op |-> "get_field_text", label |-> label, outcome |-> r.outcome,
                     none |-> r.none, value |-> r.value]
    /\ UNCHANGED << field_data, pupa_media >>
    /\ UNCHANGED << formVars, peopleVars, docVars >>

GetFieldUrl ==
    /\ ret.op /= "off"
    /\ \E label \in FieldNames :
         LET r == get_field_url(field_data, label)
         IN  ret' = [op |-> "get_field_url", label |-> label, outcome |-> r.outcome,
                     none |-> r.none, value |-> r.value]
    /\ UNCHANGED << field_data, pupa_media >>
    /\ UNCHANGED << formVars, peopleVars, docVars >>

NextFields == GetFieldText \/ GetFieldUrl

SpecFields == InitFieldsRun /\ [][NextFields]_vars

(***************************************************************************)
(* Properties of the field aggregator.                                     *)
(***************************************************************************)
Called == ret.op \in {"get_field_text", "get_field_url"}
Present == get_label_text(ret.label) \in DOMAIN field_data
TheField == field_data[get_label_text(ret.label)]
BlankText(a) == \A i \in 1..Len(a.text) : a.text[i] = " "
NoUrl(a) == a.url = NoneVal \/ a.url = ""

\* C10 as stated: get_field_text and get_field_url raise SkipItem when the label
\* is not in field_data; return None, raising nothing, when the field is present
\* but blank; and otherwise return the field's text / first URL.
C10_ThreeCases ==
    Called =>
        /\ ~ Present => ret.outcome = "SkipItem"
        /\ Present => ret.outcome = "return"
        /\ (Present /\ ~ TheField.is_none /\ BlankText(TheField)) => ret.none
        /\ (Present /\ ~ TheField.is_none /\ ~ BlankText(TheField)) =>
              IF ret.op = "get_field_text"
              THEN ~ ret.none /\ ret.value = get_text(TheField)
              ELSE ~ NoUrl(TheField) => (~ ret.none /\ ret.value = TheField.url)

\* C10 amended: both raise SkipItem when the label is not in field_data and
\* raise nothing when it is; get_field_text returns None for a field that is
\* blank (or stored as None) and the field's text otherwise; get_field_url does
\* not look at blankness: it returns the field's first URL whenever there is a
\* non-empty one, even under blank text, and None otherwise.
C10_ThreeCasesByAccessor ==
    Called =>
        /\ ~ Present => ret.outcome = "SkipItem"
        /\ Present => ret.outcome = "return"
        /\ (Present /\ TheField.is_none) => ret.none
        /\ (Present /\ ~ TheField.is_none /\ ret.op = "get_field_text") =>
              IF BlankText(TheField) THEN ret.none
              ELSE ~ ret.none /\ ret.value = get_text(TheField)
        /\ (Present /\ ~ TheField.is_none /\ ret.op = "get_field_url") =>
              IF NoUrl(TheField) THEN ret.none
              ELSE ~ ret.none /\ ret.value = TheField.url

\* C10 witness: get_field_text on a present field holding only blanks returned
\* None without raising.
C10_Witness ==
    /\ ret.op = "get_field_text"
    /\ Present
    /\ ~ TheField.is_none
    /\ Len(TheField.text) >= 1
    /\ BlankText(TheField)
    /\ ret.outcome = "return"
    /\ ret.none


(***************************************************************************)
(* Documents of a bill detail page: BillsDetailView.gen_documents          *)
(* (bills.py 174-187).                                                     *)
(***************************************************************************)

\* The link elements self.xpath('attachments', './/a') may find: a text and an
\* href each; two of them point at the same URL.
DocUrls == {"http://host/a.pdf", "http://host/b.doc"}
MediaTypes == {"application/pdf", "application/msword"}
Links == { [name |-> "Agenda", url |-> "http://host/a.pdf"],
           [name |-> "Minutes", url |-> "http://host/b.doc"],
           [name |-> "Agenda (copy)", url |-> "http://host/a.pdf"] }

\* The loop body probing the first link's URL in place of its own.
gen_document_probe_first(els, i, ct) ==
    LET url == els[1].url
        media_type == ct[url]
    IN  [probe |-> url,
         item |-> [name |-> els[i].name,
                   links |-> << [url |-> els[i].url, media_type |-> media_type] >>]]

\* One pass of the loop body of gen_documents (bills.py 177-187) for the i-th
\* link: the URL it sends a HEAD request for, and the item it yields.
gen_document(els, i, ct) ==
    LET url == els[i].url
        media_type == ct[url]
    IN  [probe |-> url,
         item |-> [name |-> els[i].name,
                   links |-> << [url |-> els[i].url, media_type |-> media_type] >>]]

InitDocs ==
    /\ attachments \in SeqsUpTo(Links, MaxLinks)
    /\ content_type \in [DocUrls -> MediaTypes]
    /\ gen = [pc |-> "running", i |-> 1, probes |-> << >>, documents |-> << >>]

InitDocsRun == FormIdle /\ PeopleIdle /\ FieldsIdle /\ InitDocs

\* The generator advances by one link: HEAD probe, then yield.
GenDocumentsNext ==
    /\ gen.pc = "running"
    /\ gen.i <= Len(attachments)
    /\ LET d == gen_document(attachments, gen.i, content_type)
       IN  gen' = [gen EXCEPT !.i = @ + 1,
                              !.probes = Append(@, d.probe),
                              !.documents = Append(@, d.item)]
    /\ UNCHANGED << attachments, content_type >>
    /\ UNCHANGED << formVars, peopleVars, fieldVars >>

\* No link is left: the generator is exhausted and the list is complete.
GenDocumentsEnd ==
    /\ gen.pc = "running"
    /\ gen.i > Len(attachments)
    /\ gen' = [gen EXCEPT !.pc = "done"]
    /\ UNCHANGED << attachments, content_type >>
    /\ UNCHANGED << formVars, peopleVars, fieldVars >>

NextDocs == GenDocumentsNext \/ GenDocumentsEnd

SpecDocs == InitDocsRun /\ [][NextDocs]_vars

\* C6: for N links at the attachments location gen_documents sends exactly N
\* HEAD probes, one per link in document order, and emits N documents, the
\* i-th carrying the i-th link's URL and the media type the probe of that URL
\* returned.
C6_OneProbePerLink ==
    /\ gen.pc \in {"running", "done"} =>
          /\ Len(gen.probes) = gen.i - 1
          /\ Len(gen.documents) = gen.i - 1
          /\ \A i \in 1..Len(gen.documents) :
                /\ gen.probes[i] = attachments[i].url
                /\ Len(gen.documents[i].links) = 1
                /\ gen.documents[i].links[1].url = attachments[i].url
                /\ gen.documents[i].links[1].media_type = content_type[attachments[i].url]
    /\ gen.pc = "done" =>
          /\ Len(gen.probes) = Len(attachments)
          /\ Len(gen.documents) = Len(attachments)

\* C6 witness: the spec's case, two links of different media types, both probed.
C6_Witness ==
    /\ gen.pc = "done"
    /\ Len(attachments) = 2
    /\ Len(gen.probes) = 2
    /\ Len(gen.documents) = 2
    /\ gen.documents[1].links[1].media_type /= gen.documents[2].links[1].media_type


(***************************************************************************)
(* Media of a bill detail table row: BillsDetailTableRow._get_media and    *)
(* gen_media (bills.py 224-246).                                           *)
(***************************************************************************)

\* The field data of one row of the detail table: any subset of the labels,
\* each bound to None or to an accessor with the cell's text and its first URL
\* (None, empty, or a URL), as for every field aggregator.
CellTexts == { << >>, << "a" >> }
RowCells == [is_none : {FALSE}, text : CellTexts, url : Urls] \cup {NoneAccessor}
RowFieldDatas ==
    UNION { [ls -> RowCells] :
              ls \in SUBSET { get_label_text(n) : n \in MediaLabels } }

\* The URL strings a HEAD probe may be sent for.
MediaUrls == Urls \ {NoneVal}

NoItem == [name |-> << >>, links |-> << >>]

\* _get_media (bills.py 224-238): SkipItem when the row has no such field or
\* get_url() is None; AttributeError when the field is stored as None
\* (data.get_url() on None, line 229); otherwise one HEAD probe of the URL,
\* the empty one included, and the media entry carrying the answered content
\* type.
get_media(fd, label, ct) ==
    LET r == get_field_data(fd, label)
    IN  IF r.outcome = "SkipItem"
        THEN [outcome |-> "SkipItem", probes |-> << >>, item |-> NoItem]
        ELSE IF r.data.is_none
        THEN [outcome |-> "AttributeError", probes |-> << >>, item |-> NoItem]
        ELSE LET url == get_url(r.data)
             IN  IF url = NoneVal
                 THEN [outcome |-> "SkipItem", probes |-> << >>, item |-> NoItem]
                 ELSE LET media_type == ct[url]
                      IN  [outcome |-> "return", probes |-> << url >>,
                           item |-> [name |-> get_text(r.data),
                                     links |-> << [url |-> get_url(r.data),
                                                   media_type |-> media_type] >>]]

\* One pass of the loop body of gen_media (bills.py 243-246) for one label:
\* yield the entry, or continue with the next label on SkipItem; any other
\* exception leaves the generator.
gen_media_label(fd, label, ct) ==
    LET m == get_media(fd, label, ct)
    IN  IF m.outcome = "return"
        THEN [outcome |-> "yield", probes |-> m.probes, items |-> << m.item >>]
        ELSE IF m.outcome = "SkipItem"
        THEN [outcome |-> "continue", probes |-> m.probes, items |-> << >>]
        ELSE [outcome |-> m.outcome, probes |-> m.probes, items |-> << >>]

InitMedia ==
    /\ field_data \in RowFieldDatas
    /\ pupa_media \in SeqsUpTo(MediaLabels, MaxMedia)
    /\ content_type \in [MediaUrls -> MediaTypes]
    /\ ret = [op |-> "gen_media", outcome |-> "running", i |-> 1,
              probes |-> << >>, media |-> << >>]
    /\ attachments = << >>
    /\ gen = [pc |-> "off"]

InitMediaRun == FormIdle /\ PeopleIdle /\ InitMedia

\* The generator advances by one configured label.
GenMediaNext ==
    /\ ret.op = "gen_media"
    /\ ret.outcome = "running"
    /\ ret.i <= Len(pupa_media)
    /\ LET p == gen_media_label(field_data, pupa_media[ret.i], content_type)
       IN  ret' = [ret EXCEPT !.i = @ + 1,
                              !.probes = @ \o p.probes,
                              !.media = @ \o p.items,
                              !.outcome = IF p.outcome \in {"yield", "continue"}
                                          THEN "running" ELSE p.outcome]
    /\ UNCHANGED << field_data, pupa_media >>
    /\ UNCHANGED << formVars, peopleVars, docVars >>

\* No label is left: the generator is exhausted and the list is complete.
GenMediaEnd ==
    /\ ret.op = "gen_media"
    /\ ret.outcome = "running"
    /\ ret.i > Len(pupa_media)
    /\ ret' = [ret EXCEPT !.outcome = "return"]
    /\ UNCHANGED << field_data, pupa_media >>
    /\ UNCHANGED << formVars, peopleVars, docVars >>

NextMedia == GenMediaNext \/ GenMediaEnd

SpecMedia == InitMediaRun /\ [][NextMedia]_vars

\* C11: for every configured list of pupa_media labels gen_media never raises
\* SkipItem and no media field makes it leave with an exception (a missing
\* media field cannot abort the row's record); a label whose field is absent
\* or has no URL is omitted and no HEAD probe is sent for it; every other label
\* yields exactly one media entry, in configuration order, with the field's
\* URL and the content type its one HEAD probe answered.  "Has a URL" is the
\* claim's notion, not the test _get_media makes: the field is there, it is
\* not None, and its URL is neither None nor empty (as for get_field_url).
C11_SkipItemStaysInGenMedia ==
    LET claimed_url(label) ==
            /\ get_label_text(label) \in DOMAIN field_data
            /\ ~ field_data[get_label_text(label)].is_none
            /\ ~ NoUrl(field_data[get_label_text(label)])
        seen == SubSeq(pupa_media, 1, ret.i - 1)
        claimed == SelectSeq(seen, claimed_url)
    IN  ret.op = "gen_media" =>
            /\ ret.outcome \in {"running", "return"}
            /\ ret.outcome = "return" => ret.i = Len(pupa_media) + 1
            /\ Len(ret.media) = Len(claimed)
            /\ Len(ret.probes) = Len(claimed)
            /\ \A k \in 1..Len(claimed) :
                  LET cell == field_data[get_label_text(claimed[k])]
                  IN  /\ ret.probes[k] = cell.url
                      /\ ret.media[k].name = get_text(cell)
                      /\ ret.media[k].links =
                            << [url |-> cell.url, media_type |-> content_type[cell.url]] >>


(***************************************************************************)
(* Sponsors of a bill detail page: BillsDetailView.gen_sponsors            *)
(* (bills.py 166-172).                                                     *)
(***************************************************************************)

\* The sponsors field of a detail page: absent, None, or an accessor whose
\* text is made of name characters, commas and blanks.
SponsorChars == {"a", "b", ",", " "}
SponsorsAccessors ==
    [is_none : {FALSE}, text : SeqsUpTo(SponsorChars, MaxSponsorsText), url : {NoneVal}]
SponsorsFieldDatas ==
    UNION { [ls -> SponsorsAccessors \cup {NoneAccessor}] :
              ls \in SUBSET { get_label_text("sponsors") } }

\* str.strip: blanks removed at both ends.
RECURSIVE rstrip(_)
rstrip(t) ==
    IF t /= << >> /\ t[Len(t)] = " " THEN rstrip(SubSeq(t, 1, Len(t) - 1)) ELSE t
strip(t) == rstrip(lstrip(t))

\* re.split(r',\s+', t) (bills.py 169): t cut at every comma that a blank
\* follows, the comma and the whole run of blanks removed; cur is the piece
\* being read.
RECURSIVE re_split_from(_, _)
re_split_from(t, cur) ==
    IF t = << >> THEN << cur >>
    ELSE IF Head(t) = "," /\ Len(t) >= 2 /\ t[2] = " "
    THEN << cur >> \o re_split_from(lstrip(Tail(t)), << >>)
    ELSE re_split_from(Tail(t), Append(cur, Head(t)))
re_split(t) == re_split_from(t, << >>)

\* The loop of gen_sponsors (bills.py 169-172): one dict(name=name) per piece
\* that is not empty once stripped, in order.
RECURSIVE sponsor_names(_)
sponsor_names(pieces) ==
    IF pieces = << >> THEN << >>
    ELSE LET name == strip(Head(pieces))
         IN  (IF name /= << >> THEN << [name |-> name] >> ELSE << >>)
                 \o sponsor_names(Tail(pieces))

\* gen_sponsors (bills.py 166-172) under list(): get_field_text raising
\* SkipItem leaves the generator; when it returns None re.split raises
\* TypeError; otherwise the list of names.
gen_sponsors(fd) ==
    LET sponsors == get_field_text(fd, "sponsors")
    IN  IF sponsors.outcome = "SkipItem"
        THEN [outcome |-> "SkipItem", sponsors |-> << >>]
        ELSE IF sponsors.none
        THEN [outcome |-> "TypeError", sponsors |-> << >>]
        ELSE [outcome |-> "return", sponsors |-> sponsor_names(re_split(sponsors.value))]

InitSponsors ==
    /\ field_data \in SponsorsFieldDatas
    /\ pupa_media = << >>
    /\ ret = [op |-> "none", label |-> "sponsors", outcome |-> "none", sponsors |-> << >>]

InitSponsorsRun == FormIdle /\ PeopleIdle /\ InitSponsors /\ DocsIdle

GenSponsors ==
    /\ ret.op = "none"
    /\ LET r == gen_sponsors(field_data)
       IN  ret' = [op |-> "gen_sponsors", label |-> "sponsors", outcome |-> r.outcome,
                   sponsors |-> r.sponsors]
    /\ UNCHANGED << field_data, pupa_media >>
    /\ UNCHANGED << formVars, peopleVars, docVars >>

NextSponsors == GenSponsors

SpecSponsors == InitSponsorsRun /\ [][NextSponsors]_vars

\* C12: generating 'sponsors' never fails with a non-SkipItem error because of
\* the field's content: for a sponsors field that is present but blank
\* gen_sponsors produces an empty list (or the key is omitted, by SkipItem),
\* and for non-blank text it returns one {name} entry per non-empty name of
\* the comma-separated text, in order.
C12_SponsorsNeverFail ==
    (ret.op = "gen_sponsors" /\ Present /\ ~ TheField.is_none) =>
        IF BlankText(TheField)
        THEN \/ ret.outcome = "return" /\ ret.sponsors = << >>
             \/ ret.outcome = "SkipItem"
        ELSE /\ ret.outcome = "return"
             /\ ret.sponsors = sponsor_names(re_split(get_text(TheField)))

====
